---- MODULE Spec2Model ----
(***************************************************************************)
(* Model of the dashboard's WebSocket client (utils/ws.js, class           *)
(* WebSocketClient): connection life cycle, heartbeat, bounded             *)
(* reconnection, and the listener registry with its dispatch.              *)
(***************************************************************************)
EXTENDS Integers, Sequences, FiniteSets, TLC

(* ---------------- bounds of the model ---------------- *)
\* transport instances that may be alive (not yet CLOSED) at the same time
MaxSockets == 2
\* reconnect timeouts that may be pending at the same time
MaxTimers == 2
\* heartbeat intervals that may be running without a reference to them
MaxLeaked == 1
\* cap of the history counter of involuntary closes since the last open
MaxCloses == 7
\* number of distinct listener callbacks
NumListeners == 2
\* milliseconds that pass in one step of the fine-grained clock
TickMs == 1000
\* events a mounted live-events view may receive
MaxEvents == 53
\* list requests of the history view that may be outstanding at the same time
MaxPending == 2

(* ---------------- program constants ---------------- *)
maxReconnectAttempts == 5
reconnectDelay == 3000

\* WebSocket.readyState values (NONE: no such instance exists)
CONNECTING == "CONNECTING"
OPEN == "OPEN"
CLOSING == "CLOSING"
CLOSED == "CLOSED"
NONE == "NONE"

SockIds == 1..MaxSockets
Listeners == 1..NumListeners

VARIABLES
    ws,                    \* this.ws: id of the current transport, 0 = null
    socks,                 \* readyState of every transport instance created
    listeners,             \* this.listeners: a Set, kept in insertion order
    reconnectAttempts,     \* this.reconnectAttempts
    isIntentionallyClosed, \* this.isIntentionallyClosed
    pingInterval,          \* this.pingInterval: "undefined", "active", "cleared"
    leakedIntervals,       \* running intervals this.pingInterval no longer names
    reconnectTimers,       \* pending setTimeout(() => this.connect())
    timerLeft,             \* ms each pending timeout still waits, oldest first
    closesSinceOpen,       \* history: involuntary closes since the last open
    liveBuffer,            \* LiveEvents: the events state, newest first
    liveSeq,               \* number of events the mounted LiveEvents view received
    history,               \* History: filters, events, loading, error, requests
    last                   \* history: what the last handler did

vars == <<ws, socks, listeners, reconnectAttempts,
          isIntentionallyClosed, pingInterval, leakedIntervals,
          reconnectTimers, timerLeft, closesSinceOpen, last,
          liveBuffer, liveSeq, history>>

\* the state of the two pages
pageVars == <<liveBuffer, liveSeq, history>>

connVars == <<ws, socks, reconnectAttempts, isIntentionallyClosed,
              pingInterval, leakedIntervals, reconnectTimers, timerLeft>>

(* ---------------- getConnectionState ---------------- *)
\* a mapping that reports a CLOSED transport as CLOSING
StateOf_ClosedIsClosing(w, s) ==
    IF w = 0 THEN "DISCONNECTED"
    ELSE IF s[w] = CONNECTING THEN "CONNECTING"
    ELSE IF s[w] = OPEN THEN "CONNECTED"
    ELSE IF s[w] \in {CLOSING, CLOSED} THEN "CLOSING"
    ELSE "UNKNOWN"

StateOf(w, s) ==
    IF w = 0 THEN "DISCONNECTED"
    ELSE IF s[w] = CONNECTING THEN "CONNECTING"
    ELSE IF s[w] = OPEN THEN "CONNECTED"
    ELSE IF s[w] = CLOSING THEN "CLOSING"
    ELSE IF s[w] = CLOSED THEN "DISCONNECTED"
    ELSE "UNKNOWN"

getConnectionState == StateOf(ws, socks)

\* a CLOSED instance that is not this.ws is unreachable: drop it
Collect(s, w) == [i \in SockIds |-> IF s[i] = CLOSED /\ i # w THEN NONE ELSE s[i]]

FreeId(s) == CHOOSE i \in SockIds : s[i] = NONE /\ \A j \in SockIds : s[j] = NONE => i <= j

NoLast ==
    [op |-> "init", sock |-> 0, pre |-> "DISCONNECTED", wsPre |-> 0,
     flag |-> FALSE, created |-> FALSE, sched |-> FALSE, sent |-> FALSE,
     payload |-> <<>>, dispatched |-> FALSE, thrown |-> FALSE,
     data |-> <<"none">>, start |-> <<>>, calls |-> <<>>, conn |-> <<>>,
     sockPre |-> NONE, attempts |-> 0, redialed |-> FALSE,
     ping |-> "undefined"]

\* the history view before it is mounted: the useState initial values
HistoryInit ==
    [mounted |-> FALSE, filters |-> "all", events |-> <<"empty">>,
     loading |-> TRUE, error |-> FALSE, pending |-> <<>>]

(* ---------------- constructor ---------------- *)
Init ==
    /\ liveBuffer = <<>>
    /\ liveSeq = 0
    /\ history = HistoryInit
    /\ ws = 0
    /\ socks = [i \in SockIds |-> NONE]
    /\ listeners = <<>>
    /\ reconnectAttempts = 0
    /\ isIntentionallyClosed = FALSE
    /\ pingInterval = "undefined"
    /\ leakedIntervals = 0
    /\ reconnectTimers = 0
    /\ timerLeft = <<>>
    /\ closesSinceOpen = 0
    /\ last = NoLast

(* ---------------- connect() ---------------- *)
\* the early return of connect()
ConnectReturnsEarly(w, s) == w # 0 /\ s[w] = OPEN

\* a connect() that leaves the flag as it is
FlagAfterConnect_Kept(flag) == flag

\* connect(): this.isIntentionallyClosed = false
FlagAfterConnect(flag) == FALSE

connect(opname) ==
    IF ConnectReturnsEarly(ws, socks)
    THEN /\ UNCHANGED <<ws, socks, isIntentionallyClosed>>
         /\ last' = [NoLast EXCEPT !.op = opname, !.pre = getConnectionState,
                                   !.wsPre = ws, !.flag = isIntentionallyClosed]
    ELSE /\ \E i \in SockIds : Collect(socks, 0)[i] = NONE
         /\ LET s1 == Collect(socks, 0)
                n == FreeId(s1)
            IN /\ socks' = [s1 EXCEPT ![n] = CONNECTING]
               /\ ws' = n
               /\ last' = [NoLast EXCEPT !.op = opname, !.sock = n,
                                         !.pre = getConnectionState,
                                         !.wsPre = ws,
                                         !.flag = isIntentionallyClosed,
                                         !.created = TRUE]
         /\ isIntentionallyClosed' = FlagAfterConnect(isIntentionallyClosed)

\* a connect() that gives the reconnection budget back
Connect_ResetsCounter ==
    /\ connect("connect")
    /\ reconnectAttempts' = 0
    /\ UNCHANGED <<listeners, pingInterval,
                   leakedIntervals, reconnectTimers, timerLeft, closesSinceOpen>>
    /\ UNCHANGED pageVars

Connect ==
    /\ connect("connect")
    /\ UNCHANGED <<listeners, reconnectAttempts, pingInterval,
                   leakedIntervals, reconnectTimers, timerLeft, closesSinceOpen>>
    /\ UNCHANGED pageVars

\* the setTimeout callback scheduled by onclose
\* a timeout whose callback may run at once
TimerDue_NoDelay(left) == left <= reconnectDelay

\* a timeout's callback runs once its delay has elapsed
TimerDue(left) == left = 0

\* a timer that stays armed after it ran, as setInterval would
ReconnectTimer_Repeating ==
    /\ reconnectTimers > 0
    /\ TimerDue(Head(timerLeft))
    /\ reconnectTimers' = reconnectTimers
    /\ timerLeft' = Append(Tail(timerLeft), reconnectDelay)
    /\ connect("timer")
    /\ UNCHANGED <<listeners, reconnectAttempts, pingInterval,
                   leakedIntervals, closesSinceOpen>>
    /\ UNCHANGED pageVars

ReconnectTimer ==
    /\ reconnectTimers > 0
    /\ TimerDue(Head(timerLeft))
    /\ reconnectTimers' = reconnectTimers - 1
    /\ timerLeft' = Tail(timerLeft)
    /\ connect("timer")
    /\ UNCHANGED <<listeners, reconnectAttempts, pingInterval,
                   leakedIntervals, closesSinceOpen>>
    /\ UNCHANGED pageVars

\* d ms pass: every pending timeout has d less to wait
Elapse(d) ==
    /\ \E k \in 1..Len(timerLeft) : timerLeft[k] > 0
    /\ timerLeft' = [k \in 1..Len(timerLeft) |->
                        IF timerLeft[k] > d THEN timerLeft[k] - d ELSE 0]
    /\ last' = [NoLast EXCEPT !.op = "elapse"]
    /\ UNCHANGED <<ws, socks, listeners, reconnectAttempts,
                   isIntentionallyClosed, pingInterval, leakedIntervals,
                   reconnectTimers, closesSinceOpen>>
    /\ UNCHANGED pageVars

(* ---------------- ws.onopen ---------------- *)
\* an onopen that keeps the counter
AttemptsAfterOpen_Kept(attempts) == attempts

\* onopen: this.reconnectAttempts = 0
AttemptsAfterOpen(attempts) == 0

OnOpen(i) ==
    /\ socks[i] = CONNECTING
    /\ pingInterval = "active" => leakedIntervals < MaxLeaked
    /\ socks' = [socks EXCEPT ![i] = OPEN]
    /\ reconnectAttempts' = AttemptsAfterOpen(reconnectAttempts)
    /\ leakedIntervals' = IF pingInterval = "active" THEN leakedIntervals + 1
                          ELSE leakedIntervals
    /\ pingInterval' = "active"
    /\ closesSinceOpen' = 0
    /\ last' = [NoLast EXCEPT !.op = "onopen", !.sock = i,
                              !.pre = getConnectionState, !.wsPre = ws,
                              !.flag = isIntentionallyClosed,
                              !.sockPre = socks[i],
                              !.attempts = reconnectAttempts]
    /\ UNCHANGED <<ws, listeners, isIntentionallyClosed, reconnectTimers,
                   timerLeft>>
    /\ UNCHANGED pageVars

(* ---------------- ws.onclose ---------------- *)
\* a budget test that is off by one
ShouldReconnect_Inclusive(flag, attempts) == ~flag /\ attempts <= maxReconnectAttempts

\* the condition under which onclose schedules a reconnection
ShouldReconnect(flag, attempts) == ~flag /\ attempts < maxReconnectAttempts

\* a counter that counts every close
AttemptsAfterClose_Always(resched, attempts) == attempts + 1

\* onclose: this.reconnectAttempts++ inside the if
AttemptsAfterClose(resched, attempts) == IF resched THEN attempts + 1 ELSE attempts

OnClose(i) ==
    /\ socks[i] \in {CONNECTING, OPEN, CLOSING}
    /\ LET resched == ShouldReconnect(isIntentionallyClosed, reconnectAttempts)
       IN /\ resched => reconnectTimers < MaxTimers
          /\ socks' = Collect([socks EXCEPT ![i] = CLOSED], ws)
          /\ pingInterval' = IF pingInterval = "undefined" THEN "undefined" ELSE "cleared"
          /\ reconnectAttempts' = AttemptsAfterClose(resched, reconnectAttempts)
          /\ reconnectTimers' = IF resched THEN reconnectTimers + 1 ELSE reconnectTimers
          /\ timerLeft' = IF resched THEN Append(timerLeft, reconnectDelay) ELSE timerLeft
          /\ closesSinceOpen' = IF isIntentionallyClosed THEN closesSinceOpen
                                ELSE IF closesSinceOpen < MaxCloses THEN closesSinceOpen + 1
                                ELSE MaxCloses
          /\ last' = [NoLast EXCEPT !.op = "onclose", !.sock = i,
                                    !.pre = getConnectionState, !.wsPre = ws,
                                    !.flag = isIntentionallyClosed,
                                    !.sched = resched,
                                    !.sockPre = socks[i],
                                    !.attempts = reconnectAttempts,
                                    !.ping = pingInterval,
                                    !.redialed = (/\ last.op = "connect" /\ last.flag
                                                  /\ last.created /\ last.sock = i)]
    /\ UNCHANGED <<ws, listeners, isIntentionallyClosed, leakedIntervals>>
    /\ UNCHANGED pageVars

(* ---------------- disconnect() ---------------- *)
\* WebSocket.close(): CONNECTING and OPEN become CLOSING
CloseSock(s, w) ==
    IF w # 0 /\ s[w] \in {CONNECTING, OPEN} THEN [s EXCEPT ![w] = CLOSING] ELSE s

\* a disconnect() that also empties the registry
Disconnect_ClearsListeners ==
    /\ isIntentionallyClosed' = TRUE
    /\ pingInterval' = IF pingInterval = "undefined" THEN "undefined" ELSE "cleared"
    /\ socks' = Collect(CloseSock(socks, ws), 0)
    /\ ws' = 0
    /\ listeners' = <<>>
    /\ last' = [NoLast EXCEPT !.op = "disconnect", !.sock = ws,
                              !.pre = getConnectionState, !.wsPre = ws,
                              !.flag = isIntentionallyClosed]
    /\ UNCHANGED <<reconnectAttempts, leakedIntervals,
                   reconnectTimers, timerLeft, closesSinceOpen>>
    /\ UNCHANGED pageVars

Disconnect ==
    /\ isIntentionallyClosed' = TRUE
    /\ pingInterval' = IF pingInterval = "undefined" THEN "undefined" ELSE "cleared"
    /\ socks' = Collect(CloseSock(socks, ws), 0)
    /\ ws' = 0
    /\ last' = [NoLast EXCEPT !.op = "disconnect", !.sock = ws,
                              !.pre = getConnectionState, !.wsPre = ws,
                              !.flag = isIntentionallyClosed]
    /\ UNCHANGED <<listeners, reconnectAttempts, leakedIntervals,
                   reconnectTimers, timerLeft, closesSinceOpen>>
    /\ UNCHANGED pageVars

(* ---------------- the setInterval callback of onopen ---------------- *)
\* a heartbeat that sends whatever the state of the transport
PingSent_Always(w, s) == TRUE

\* the interval callback: if (this.ws?.readyState === OPEN) this.ws.send('ping')
PingSent(w, s) == w # 0 /\ s[w] = OPEN

HeartbeatTick ==
    /\ pingInterval = "active" \/ leakedIntervals > 0
    /\ last' = [NoLast EXCEPT !.op = "tick", !.sock = ws,
                              !.pre = getConnectionState, !.wsPre = ws,
                              !.flag = isIntentionallyClosed,
                              !.sent = PingSent(ws, socks)]
    /\ UNCHANGED <<ws, socks, listeners, reconnectAttempts,
                   isIntentionallyClosed, pingInterval, leakedIntervals,
                   reconnectTimers, timerLeft, closesSinceOpen>>
    /\ UNCHANGED pageVars

(* ---------------- getConnectionState() as called by the top bar -------- *)
GetConnectionState ==
    /\ last' = [NoLast EXCEPT !.op = "getConnectionState", !.sock = ws,
                              !.pre = getConnectionState, !.wsPre = ws,
                              !.flag = isIntentionallyClosed]
    /\ UNCHANGED <<ws, socks, listeners, reconnectAttempts,
                   isIntentionallyClosed, pingInterval, leakedIntervals,
                   reconnectTimers, timerLeft, closesSinceOpen>>
    /\ UNCHANGED pageVars


(* ---------------- text frames and JSON ---------------- *)
\* A frame's text is a sequence of lexical tokens; a token is a tuple whose
\* first element is its kind.  A decoded value is <<"num", n>>, <<"str", s>>,
\* <<"null">>, <<"arr", sequence>> or <<"obj", function from keys to values>>.
LBrace == <<"{">>
RBrace == <<"}">>
LBracket == <<"[">>
RBracket == <<"]">>
Colon == <<":">>
Comma == <<",">>
Word(w) == <<"word", w>>

\* the liveness reply: the bare text pong
PongText == <<Word("pong")>>
\* the liveness probe the interval callback sends
PingText == <<Word("ping")>>

ParseFail == [ok |-> FALSE, val |-> <<"none">>, next |-> 0]
ParseOk(v, n) == [ok |-> TRUE, val |-> v, next |-> n]

RECURSIVE ParseValue(_, _), ParseMembers(_, _, _), ParseElements(_, _, _)
ParseValue(t, i) ==
    IF i > Len(t) THEN ParseFail
    ELSE LET k == t[i][1]
         IN CASE k = "num" -> ParseOk(<<"num", t[i][2]>>, i + 1)
              [] k = "str" -> ParseOk(<<"str", t[i][2]>>, i + 1)
              [] k = "null" -> ParseOk(<<"null">>, i + 1)
              [] k = "{" -> IF i + 1 <= Len(t) /\ t[i + 1][1] = "}"
                            THEN ParseOk(<<"obj", <<>> >>, i + 2)
                            ELSE ParseMembers(t, i + 1, <<>>)
              [] k = "[" -> IF i + 1 <= Len(t) /\ t[i + 1][1] = "]"
                            THEN ParseOk(<<"arr", <<>> >>, i + 2)
                            ELSE ParseElements(t, i + 1, <<>>)
              [] OTHER -> ParseFail

\* members of an object after "{" or ","; a repeated key keeps the last value
ParseMembers(t, i, acc) ==
    IF i + 1 > Len(t) \/ t[i][1] # "str" \/ t[i + 1][1] # ":" THEN ParseFail
    ELSE LET r == ParseValue(t, i + 2)
         IN IF ~r.ok \/ r.next > Len(t) THEN ParseFail
            ELSE LET acc2 == (t[i][2] :> r.val) @@ acc
                 IN CASE t[r.next][1] = "," -> ParseMembers(t, r.next + 1, acc2)
                      [] t[r.next][1] = "}" -> ParseOk(<<"obj", acc2>>, r.next + 1)
                      [] OTHER -> ParseFail

ParseElements(t, i, acc) ==
    LET r == ParseValue(t, i)
    IN IF ~r.ok \/ r.next > Len(t) THEN ParseFail
       ELSE LET acc2 == Append(acc, r.val)
            IN CASE t[r.next][1] = "," -> ParseElements(t, r.next + 1, acc2)
                 [] t[r.next][1] = "]" -> ParseOk(<<"arr", acc2>>, r.next + 1)
                 [] OTHER -> ParseFail

\* a parse that stops one token short of the end of the text
JSONParse_ShortEnd(t) ==
    LET r == ParseValue(t, 1)
    IN IF r.ok /\ r.next = Len(t) THEN [ok |-> TRUE, val |-> r.val]
       ELSE [ok |-> FALSE, val |-> <<"none">>]

\* JSON.parse: one value spanning the whole text, else a SyntaxError
JSONParse(t) ==
    LET r == ParseValue(t, 1)
    IN IF r.ok /\ r.next = Len(t) + 1 THEN [ok |-> TRUE, val |-> r.val]
       ELSE [ok |-> FALSE, val |-> <<"none">>]

\* the server's JSON encoding of a value (the broadcast of an event)
RECURSIVE Encode(_), EncodeMembers(_, _), EncodeElements(_, _)
Encode(v) ==
    CASE v[1] = "obj" -> <<LBrace>> \o EncodeMembers(v[2], DOMAIN v[2]) \o <<RBrace>>
      [] v[1] = "arr" -> <<LBracket>> \o EncodeElements(v[2], 1) \o <<RBracket>>
      [] OTHER -> <<v>>

EncodeMembers(f, keys) ==
    IF keys = {} THEN <<>>
    ELSE LET k == CHOOSE x \in keys : TRUE
             rest == keys \ {k}
         IN <<<<"str", k>>, Colon>> \o Encode(f[k])
            \o (IF rest = {} THEN <<>> ELSE <<Comma>> \o EncodeMembers(f, rest))

EncodeElements(s, i) ==
    IF i > Len(s) THEN <<>>
    ELSE Encode(s[i]) \o (IF i = Len(s) THEN <<>> ELSE <<Comma>> \o EncodeElements(s, i + 1))

\* event records the server broadcasts
Event1 ==
    <<"obj", [id |-> <<"num", 1>>, type |-> <<"str", "speed_violation">>,
              severity |-> <<"num", 4>>, metadata |-> <<"obj", <<>> >>]>>
Event2 ==
    <<"obj", [id |-> <<"num", 125>>, type |-> <<"str", "person_near_forklift">>,
              severity |-> <<"num", 3>>,
              metadata |-> <<"obj", [distance_pixels |-> <<"num", 180>>,
                                     zones |-> <<"arr", <<<<"num", 2>>, <<"null">> >> >>]>>]>>
Events == {Event1, Event2}

\* well-formed JSON texts that are not event records
NonEventValues == {<<"null">>, <<"arr", <<<<"str", "pong">>, <<"num", 42>> >> >>}

\* texts JSON.parse rejects
Malformed ==
    {<<LBrace, Word("not"), Word("json")>>,
     <<>>,
     SubSeq(Encode(Event1), 1, Len(Encode(Event1)) - 1),
     Encode(Event1) \o <<RBrace>>,
     <<LBracket, <<"num", 1>>, Comma, RBracket>>}

Payloads == {PongText} \cup {Encode(v) : v \in Events \cup NonEventValues} \cup Malformed

(* ---------------- the listener registry (a Set) ---------------- *)
\* an add that appends without looking, as push on an array would
SetAdd_Push(entries, x) == Append(entries, x)

\* Set.prototype.add on the entry list; 0 marks an entry deleted while a
\* forEach is running
SetAdd(entries, x) ==
    IF \E i \in 1..Len(entries) : entries[i] = x THEN entries ELSE Append(entries, x)

\* a delete that misses the last entry
SetDelete_SkipsLast(entries, x) ==
    [i \in 1..Len(entries) |-> IF entries[i] = x /\ i < Len(entries) THEN 0 ELSE entries[i]]

\* Set.prototype.delete
SetDelete(entries, x) ==
    [i \in 1..Len(entries) |-> IF entries[i] = x THEN 0 ELSE entries[i]]

Compact(entries) == SelectSeq(entries, LAMBDA e : e # 0)

\* a handle that removes by position, as splice(indexOf(callback), 1) on an
\* array would: when the callback is absent the last entry goes
UnsubscribeHandle_Splice(entries, x) ==
    IF \E i \in 1..Len(entries) : entries[i] = x THEN SetDelete(entries, x)
    ELSE [i \in 1..Len(entries) |-> IF i = Len(entries) THEN 0 ELSE entries[i]]

\* the function subscribe() returns: () => this.listeners.delete(callback)
UnsubscribeHandle(entries, x) == SetDelete(entries, x)

(* ---------------- what a callback does when it is invoked ---------------- *)
Behaviours ==
    [kind : {"none", "throw"}, arg : {0}] \cup [kind : {"sub", "unsub"}, arg : Listeners]

\* what the callback b does to the entry list
ApplyCallback(entries, b) ==
    CASE b.kind = "sub" -> SetAdd(entries, b.arg)
      [] b.kind = "unsub" -> UnsubscribeHandle(entries, b.arg)
      [] OTHER -> entries

\* a dispatch without the try/catch around the callback
CallbackOutcome_NoCatch(kind) == IF kind = "throw" THEN "escaped" ELSE "returned"

\* try { callback(data) } catch: a throwing callback is logged, the loop goes on
CallbackOutcome(kind) == IF kind = "throw" THEN "caught" ELSE "returned"

\* this.listeners.forEach(callback => ...) from entry i on
RECURSIVE forEach(_, _, _, _)
forEach(entries, i, beh, calls) ==
    IF i > Len(entries) THEN [reg |-> Compact(entries), calls |-> calls, escaped |-> FALSE]
    ELSE IF entries[i] = 0 THEN forEach(entries, i + 1, beh, calls)
    ELSE LET l == entries[i]
             b == beh[l]
             e2 == ApplyCallback(entries, b)
             c2 == Append(calls, [l |-> l, kind |-> b.kind, arg |-> b.arg])
         IN IF CallbackOutcome(b.kind) = "escaped"
            THEN [reg |-> Compact(e2), calls |-> c2, escaped |-> TRUE]
            ELSE forEach(e2, i + 1, beh, c2)

notifyListeners(reg, beh) == forEach(reg, 1, beh, <<>>)

(* ---------------- subscribe(callback) and its returned handle ---------------- *)
Subscribe(l) ==
    /\ listeners' = SetAdd(listeners, l)
    /\ last' = [NoLast EXCEPT !.op = "subscribe", !.sock = l,
                              !.pre = getConnectionState, !.wsPre = ws,
                              !.flag = isIntentionallyClosed, !.start = listeners]
    /\ UNCHANGED <<connVars, closesSinceOpen>>
    /\ UNCHANGED pageVars

Unsubscribe(l) ==
    /\ listeners' = Compact(UnsubscribeHandle(listeners, l))
    /\ last' = [NoLast EXCEPT !.op = "unsubscribe", !.sock = l,
                              !.pre = getConnectionState, !.wsPre = ws,
                              !.flag = isIntentionallyClosed, !.start = listeners]
    /\ UNCHANGED <<connVars, closesSinceOpen>>
    /\ UNCHANGED pageVars

(* ---------------- ws.onmessage ---------------- *)
\* a handler that forwards every frame as received
OnMessageResult_Raw(payload) ==
    [dispatch |-> TRUE, data |-> <<"raw", payload>>, thrown |-> FALSE]

\* a handler without the try/catch around JSON.parse
OnMessageResult_NoCatch(payload) ==
    IF payload = PongText THEN [dispatch |-> FALSE, data |-> <<"none">>, thrown |-> FALSE]
    ELSE LET p == JSONParse(payload)
         IN IF p.ok THEN [dispatch |-> TRUE, data |-> p.val, thrown |-> FALSE]
            ELSE [dispatch |-> FALSE, data |-> <<"none">>, thrown |-> TRUE]

\* what the handler does with a frame: drop it, or dispatch the decoded value
OnMessageResult(payload) ==
    IF payload = PongText THEN [dispatch |-> FALSE, data |-> <<"none">>, thrown |-> FALSE]
    ELSE LET p == JSONParse(payload)
         IN IF p.ok THEN [dispatch |-> TRUE, data |-> p.val, thrown |-> FALSE]
            ELSE [dispatch |-> FALSE, data |-> <<"none">>, thrown |-> FALSE]

\* the effect of one notifyListeners(data) call made by handler opname
Dispatch(opname, i, payload, r, beh) ==
    /\ LET d == notifyListeners(listeners, beh)
       IN /\ listeners' = d.reg
          /\ last' = [NoLast EXCEPT !.op = opname, !.sock = i,
                                    !.pre = getConnectionState, !.wsPre = ws,
                                    !.flag = isIntentionallyClosed,
                                    !.payload = payload,
                                    !.dispatched = TRUE,
                                    !.thrown = d.escaped,
                                    !.data = r.data,
                                    !.start = listeners,
                                    !.calls = d.calls,
                                    !.conn = connVars]

OnMessage(i, payload, behs) ==
    /\ socks[i] = OPEN
    /\ \E r \in {OnMessageResult(payload)} :
          IF r.dispatch
          THEN \E beh \in behs : Dispatch("onmessage", i, payload, r, beh)
          ELSE /\ last' = [NoLast EXCEPT !.op = "onmessage", !.sock = i,
                                         !.pre = getConnectionState, !.wsPre = ws,
                                         !.flag = isIntentionallyClosed,
                                         !.payload = payload,
                                         !.thrown = r.thrown,
                                         !.start = listeners,
                                         !.conn = connVars]
               /\ UNCHANGED listeners
    /\ UNCHANGED <<connVars, closesSinceOpen>>
    /\ UNCHANGED pageVars

\* notifyListeners(data) called on the exported client
Notify(data, beh) ==
    /\ Dispatch("notify", 0, <<>>, [dispatch |-> TRUE, data |-> data, thrown |-> FALSE], beh)
    /\ UNCHANGED <<connVars, closesSinceOpen>>
    /\ UNCHANGED pageVars

ReturnOnly == [kind |-> "none", arg |-> 0]

\* what callback l may do when invoked (subscribing itself would change
\* nothing: it is in the Set while it runs)
BehavioursOf(l) == {b \in Behaviours : b.kind = "sub" => b.arg # l}

AllReturn == [l \in Listeners |-> ReturnOnly]

\* Every way the callbacks can behave in one dispatch over the entry list,
\* chosen callback by callback as the iteration reaches them; a callback the
\* iteration never reaches does not matter and is left at ReturnOnly.
RECURSIVE BehsFrom(_, _, _)
BehsFrom(entries, i, beh) ==
    IF i > Len(entries)
    THEN {[l \in Listeners |-> IF beh[l].kind = "unset" THEN ReturnOnly ELSE beh[l]]}
    ELSE IF entries[i] = 0 THEN BehsFrom(entries, i + 1, beh)
    ELSE LET l == entries[i]
         IN IF beh[l].kind # "unset"
            THEN BehsFrom(ApplyCallback(entries, beh[l]), i + 1, beh)
            ELSE UNION {BehsFrom(ApplyCallback(entries, b), i + 1, [beh EXCEPT ![l] = b]) :
                          b \in BehavioursOf(l)}

AllBehs == BehsFrom(listeners, 1, [l \in Listeners |-> [kind |-> "unset", arg |-> 0]])

\* the dispatches in which at most one callback does more than return
OneActiveBehs ==
    {AllReturn} \cup
    UNION {{[AllReturn EXCEPT ![listeners[k]] = b] :
               b \in BehavioursOf(listeners[k]) \ {ReturnOnly}} : k \in 1..Len(listeners)}

(* ---------------- the live-events view (LiveEvents.jsx) ---------------- *)
\* the callback the live-events view subscribes
LiveEventsListener == 1

\* the length of the view's buffer
BufferSize == 50

Min(a, b) == IF a <= b THEN a ELSE b

\* Array.prototype.slice(b, e) for 0 <= b <= e
Slice(s, b, e) == SubSeq(s, b + 1, Min(e, Len(s)))

\* a buffer that keeps the last BufferSize entries: slice(-50)
BufferAfter_KeepsLast(e, prev) ==
    LET all == <<e>> \o prev
    IN SubSeq(all, Len(all) - Min(Len(all), BufferSize) + 1, Len(all))

\* prevEvents => [newEvent, ...prevEvents].slice(0, 50)
BufferAfter(e, prev) == Slice(<<e>> \o prev, 0, BufferSize)

Mounted == \E k \in 1..Len(listeners) : listeners[k] = LiveEventsListener

\* the effect of the view: connect(), then subscribe the callback; the
\* events state of a fresh component is []
LiveEventsMount ==
    /\ ~Mounted
    /\ connect("mount")
    /\ listeners' = SetAdd(listeners, LiveEventsListener)
    /\ liveBuffer' = <<>>
    /\ liveSeq' = 0
    /\ UNCHANGED <<reconnectAttempts, pingInterval, leakedIntervals,
                   reconnectTimers, timerLeft, closesSinceOpen, history>>

\* the cleanup of the effect; the component's state goes with it
LiveEventsUnmount ==
    /\ Mounted
    /\ listeners' = Compact(UnsubscribeHandle(listeners, LiveEventsListener))
    /\ liveBuffer' = <<>>
    /\ liveSeq' = 0
    /\ last' = [NoLast EXCEPT !.op = "unmount", !.sock = LiveEventsListener,
                              !.start = listeners]
    /\ UNCHANGED <<connVars, closesSinceOpen, history>>

\* the subscribed callback, invoked by a dispatch with the next event; the
\* events are told apart by their arrival number
LiveEventsCallback ==
    /\ Mounted
    /\ \E i \in SockIds : socks[i] = OPEN
    /\ liveSeq < MaxEvents
    /\ liveSeq' = liveSeq + 1
    /\ liveBuffer' = BufferAfter(liveSeq + 1, liveBuffer)
    /\ last' = [NoLast EXCEPT !.op = "liveEvent", !.sock = LiveEventsListener,
                              !.data = <<"num", liveSeq + 1>>,
                              !.start = listeners]
    /\ UNCHANGED <<connVars, listeners, closesSinceOpen, history>>

(* ---------------- the history view (History) ---------------- *)
\* values of the severity filter
HistoryFilters == {"all", "5", "4"}

\* what the server answers to a list request with the parameters f
ResultOf(f) == <<"events for", f>>

\* fetchEvents up to its await: the request carries the filters of the
\* render that made the call
fetchEvents(h) ==
    [h EXCEPT !.loading = TRUE, !.error = FALSE, !.pending = Append(@, h.filters)]

\* the first render: useEffect(() => fetchEvents(), [filters])
HistoryMount ==
    /\ ~history.mounted
    /\ history' = fetchEvents([HistoryInit EXCEPT !.mounted = TRUE])
    /\ last' = [NoLast EXCEPT !.op = "historyMount"]
    /\ UNCHANGED <<connVars, listeners, closesSinceOpen, liveBuffer, liveSeq>>

\* setFilters from a select (another value) or from Clear Filters (a new
\* object with the default values): the effect runs fetchEvents
SetFilters(f) ==
    /\ history.mounted
    /\ f # history.filters \/ f = "all"
    /\ Len(history.pending) < MaxPending
    /\ history' = fetchEvents([history EXCEPT !.filters = f])
    /\ last' = [NoLast EXCEPT !.op = "setFilters"]
    /\ UNCHANGED <<connVars, listeners, closesSinceOpen, liveBuffer, liveSeq>>

\* the Refresh button: onClick={fetchEvents}
Refresh ==
    /\ history.mounted
    /\ Len(history.pending) < MaxPending
    /\ history' = fetchEvents(history)
    /\ last' = [NoLast EXCEPT !.op = "refresh"]
    /\ UNCHANGED <<connVars, listeners, closesSinceOpen, liveBuffer, liveSeq>>

\* the rest of fetchEvents once the response of request k is in: setEvents
\* on success, setError when api.get threw, setLoading(false) in any case
Respond(k, ok) ==
    /\ k \in 1..Len(history.pending)
    /\ history' = [history EXCEPT
                     !.events = IF ok THEN ResultOf(history.pending[k]) ELSE @,
                     !.error = IF ok THEN @ ELSE TRUE,
                     !.loading = FALSE,
                     !.pending = [j \in 1..(Len(@) - 1) |->
                                     IF j < k THEN @[j] ELSE @[j + 1]]]
    /\ last' = [NoLast EXCEPT !.op = "respond", !.sock = k, !.thrown = ~ok]
    /\ UNCHANGED <<connVars, listeners, closesSinceOpen, liveBuffer, liveSeq>>

Next ==
    \/ Connect
    \/ ReconnectTimer
    \/ \E i \in SockIds : OnOpen(i)
    \/ \E i \in SockIds : OnClose(i)
    \/ Disconnect
    \/ HeartbeatTick
    \/ Elapse(reconnectDelay)
    \/ GetConnectionState

\* transport failures and reconnections, without disconnect(), with the
\* clock advancing in steps of TickMs
NextTimed ==
    \/ Connect
    \/ ReconnectTimer
    \/ \E i \in SockIds : OnOpen(i)
    \/ \E i \in SockIds : OnClose(i)
    \/ Elapse(TickMs)

SpecTimed == Init /\ [][NextTimed]_vars

\* the connection life cycle together with the live-events view mounting
\* and unmounting, and event frames arriving
NextSession ==
    \/ Connect
    \/ ReconnectTimer
    \/ \E i \in SockIds : OnOpen(i)
    \/ \E i \in SockIds : OnClose(i)
    \/ Disconnect
    \/ Elapse(reconnectDelay)
    \/ Subscribe(LiveEventsListener)
    \/ Unsubscribe(LiveEventsListener)
    \/ \E i \in SockIds : OnMessage(i, Encode(Event1), {AllReturn})

SpecSession == Init /\ [][NextSession]_vars

\* the live-events view mounting and unmounting on a server that accepts
\* every connection and sends events
NextLive ==
    \/ LiveEventsMount
    \/ LiveEventsUnmount
    \/ \E i \in SockIds : OnOpen(i)
    \/ LiveEventsCallback

SpecLive == Init /\ [][NextLive]_vars

\* the history view: filter changes, refreshes, and the responses of the
\* outstanding requests in any order, successful or not
NextHistory ==
    \/ HistoryMount
    \/ \E f \in HistoryFilters : SetFilters(f)
    \/ Refresh
    \/ \E k \in 1..MaxPending, ok \in BOOLEAN : Respond(k, ok)

SpecHistory == Init /\ [][NextHistory]_vars

\* a server that is never reached: connect() is called once, every attempt
\* ends in a close event, and nobody calls connect() or disconnect() again;
\* the view subscribes and the top bar polls the state meanwhile
NextGiveUp ==
    \/ last.op = "init" /\ Connect
    \/ ReconnectTimer
    \/ \E i \in SockIds : socks[i] = CONNECTING /\ OnClose(i)
    \/ Elapse(TickMs)
    \/ Subscribe(LiveEventsListener)
    \/ Unsubscribe(LiveEventsListener)
    \/ GetConnectionState

\* timeouts fire, time passes, and a failing attempt gets its close event
SpecGiveUp ==
    /\ Init /\ [][NextGiveUp]_vars
    /\ WF_vars(ReconnectTimer)
    /\ WF_vars(Elapse(TickMs))
    /\ WF_vars(\E i \in SockIds : socks[i] = CONNECTING /\ OnClose(i))

\* a session without transport failures, with inbound frames: frames of
\* every kind to callbacks that only return, and an event frame to callbacks
\* of which one may throw, subscribe or unsubscribe
NextMsg ==
    \/ Connect
    \/ \E i \in SockIds : OnOpen(i)
    \/ Disconnect
    \/ \E l \in Listeners : Subscribe(l)
    \/ \E l \in Listeners : Unsubscribe(l)
    \/ \E i \in SockIds, payload \in Payloads : OnMessage(i, payload, {AllReturn})
    \/ \E i \in SockIds : OnMessage(i, Encode(Event1), OneActiveBehs)

SpecMsg == Init /\ [][NextMsg]_vars

\* the registry and its dispatch alone
NextDispatch ==
    \/ \E l \in Listeners : Subscribe(l)
    \/ \E l \in Listeners : Unsubscribe(l)
    \/ \E data \in Events : \E beh \in AllBehs : Notify(data, beh)

SpecDispatch == Init /\ [][NextDispatch]_vars

Spec == Init /\ [][Next]_vars

TypeOK ==
    /\ ws \in 0..MaxSockets
    /\ reconnectAttempts \in 0..maxReconnectAttempts
    /\ reconnectTimers \in 0..MaxTimers
    /\ Len(timerLeft) = reconnectTimers
    /\ \A k \in 1..Len(timerLeft) : timerLeft[k] \in 0..reconnectDelay

(* ======================= properties ======================= *)
Range(q) == {q[k] : k \in 1..Len(q)}

\* the callbacks the last dispatch invoked, in order
Invoked == [k \in 1..Len(last.calls) |-> last.calls[k].l]
TimesInvoked(l) == Cardinality({k \in 1..Len(last.calls) : last.calls[k].l = l})
\* callbacks whose unsubscribe handle was called during the last dispatch
UnsubscribedDuring ==
    {last.calls[k].arg : k \in {j \in 1..Len(last.calls) : last.calls[j].kind = "unsub"}}
\* the last dispatch ran without any subscribe or unsubscribe call
NoRegistryCall == \A k \in 1..Len(last.calls) : last.calls[k].kind \in {"none", "throw"}
SomeThrow == \E k \in 1..Len(last.calls) : last.calls[k].kind = "throw"
IsDispatch == last.op \in {"onmessage", "notify"} /\ last.dispatched

\* C1: connect() while the current transport is CONNECTING or OPEN is a
\* no-op: no transport is created and this.ws stays the same instance.
C1_ConnectIsNoOp ==
    (last.op = "connect" /\ last.pre \in {"CONNECTING", "CONNECTED"})
        => (~last.created /\ ws = last.wsPre)

\* C2: at most one transport created by the manager is CONNECTING or OPEN.
C2_AtMostOneLive ==
    Cardinality({i \in SockIds : socks[i] \in {CONNECTING, OPEN}}) <= 1

\* C3: a reconnection timer that fires after disconnect() (the flag is still
\* set) creates no transport and leaves the state DISCONNECTED.
C3_DisconnectCancelsReconnect ==
    (last.op = "timer" /\ last.flag)
        => (~last.created /\ getConnectionState = "DISCONNECTED")

\* C4 as stated: the 5th consecutive involuntary close (counting the close of
\* the first attempt) schedules no reconnection and the state stays
\* DISCONNECTED.  Stated for the plain run of failures: the transport that
\* closed is the manager's only one and no earlier reconnection is pending.
C4_FifthCloseGivesUp ==
    (/\ last.op = "onclose" /\ ~last.flag /\ closesSinceOpen = 5
     /\ last.sock = ws /\ \A i \in SockIds : i # ws => socks[i] = NONE
     /\ reconnectTimers <= 1)
        => (~last.sched /\ reconnectTimers = 0 /\ getConnectionState = "DISCONNECTED")

\* C4 amended: each of the first 5 consecutive involuntary closes schedules
\* one reconnection, the 6th and later schedule none; the counter is the
\* number of such closes capped at 5; and once no reconnection is pending a
\* DISCONNECTED state changes only by an explicit connect().
C4_SixthCloseGivesUp ==
    /\ [](/\ (last.op = "onclose" /\ ~last.flag) => (last.sched <=> closesSinceOpen <= 5)
          /\ reconnectAttempts = IF closesSinceOpen <= 5 THEN closesSinceOpen ELSE 5)
    /\ [][(reconnectTimers = 0 /\ getConnectionState = "DISCONNECTED"
             /\ last'.op # "connect") => getConnectionState' = "DISCONNECTED"]_vars

C4_Witness ==
    /\ last.op = "onclose" /\ ~last.flag /\ ~last.sched
    /\ closesSinceOpen = 6 /\ reconnectTimers = 0
    /\ getConnectionState = "DISCONNECTED"

\* C5: when all subscribe and unsubscribe calls were completed before the
\* dispatch, it invokes every callback of the registry exactly once and no
\* other; a callback is in the registry after subscribe and not in it after
\* its unsubscribe handle was called.
C5_DispatchToRegistry ==
    /\ (IsDispatch /\ NoRegistryCall)
          => /\ \A l \in Range(last.start) : TimesInvoked(l) = 1
             /\ \A l \in Listeners \ Range(last.start) : TimesInvoked(l) = 0
    /\ last.op = "subscribe" => last.sock \in Range(listeners)
    /\ last.op = "unsubscribe" => last.sock \notin Range(listeners)

C5_Witness ==
    /\ last.op = "notify" /\ NoRegistryCall
    /\ Len(last.calls) >= 1 /\ Len(last.start) < NumListeners

\* C6: whatever the callbacks subscribe or unsubscribe during a dispatch,
\* the callbacks invoked are exactly those registered when it began, each
\* exactly once.
C6_DispatchToSnapshot ==
    IsDispatch
        => /\ \A l \in Range(last.start) : TimesInvoked(l) = 1
           /\ \A l \in Listeners \ Range(last.start) : TimesInvoked(l) = 0

\* C7: when a callback throws during a dispatch, every other registered
\* callback (one not unsubscribed in that dispatch) is still invoked once,
\* the error does not leave the dispatch, and the transport, the reconnect
\* counter and the timers are as before.
C7_ThrowIsIsolated ==
    (IsDispatch /\ SomeThrow)
        => /\ \A l \in Range(last.start) \ UnsubscribedDuring : TimesInvoked(l) = 1
           /\ ~last.thrown
           /\ connVars = last.conn

C7_Witness ==
    /\ last.op = "onmessage" /\ last.dispatched
    /\ Len(last.calls) >= 2 /\ last.calls[1].kind = "throw"
    /\ socks[last.sock] = OPEN

\* C8: the frame pong never invokes a callback.
C8_PongNotForwarded ==
    (last.op = "onmessage" /\ last.payload = PongText)
        => (~last.dispatched /\ last.calls = <<>> /\ listeners = last.start)

C8_Witness ==
    last.op = "onmessage" /\ last.payload = PongText /\ Len(listeners) >= 1

\* C9: a frame that is the JSON text of an event is always dispatched; the
\* value handed to the callbacks equals the event sent, and each subscribed
\* callback gets it exactly once.
C9_EventIsDelivered ==
    \A e \in Events :
        (last.op = "onmessage" /\ last.payload = Encode(e))
            => /\ last.dispatched
               /\ last.data = e
               /\ \A l \in Range(last.start) \ UnsubscribedDuring : TimesInvoked(l) = 1

C9_Witness ==
    /\ last.op = "onmessage" /\ last.payload = Encode(Event2)
    /\ last.data = Event2 /\ Len(last.calls) >= 2

\* C10: an unparsable frame invokes no callback, raises nothing out of the
\* handler, and leaves the transport open and the counter, the timers and
\* the registry as they were.
C10_MalformedIsDropped ==
    (last.op = "onmessage" /\ last.payload \in Malformed)
        => /\ ~last.dispatched /\ last.calls = <<>>
           /\ ~last.thrown
           /\ socks[last.sock] = OPEN
           /\ connVars = last.conn
           /\ listeners = last.start

C10_Witness ==
    /\ last.op = "onmessage" /\ last.payload \in Malformed
    /\ Len(listeners) >= 1 /\ pingInterval = "active"

\* C11: only a frame that decodes to an event record (a JSON object) is
\* forwarded; valid JSON that is not an object (null, an array, a number, a
\* string) is dropped and reaches no callback.
C11_OnlyRecordsForwarded ==
    (last.op = "onmessage" /\ last.calls # <<>>) => last.data[1] = "obj"

\* transports that are CONNECTING: the connection attempts under way
Attempts(s) == {i \in SockIds : s[i] = CONNECTING}

\* C12: the involuntary close of an open connection (flag false, counter
\* below 5) makes no attempt itself and schedules exactly one timeout with
\* the full reconnect delay; a pending delay shrinks only as time passes,
\* and by no more than the time passed; the timeout fires only when its
\* delay is used up, fires once, and then makes exactly one attempt when
\* the manager is still disconnected.
C12_OneAttemptAfterDelay ==
    /\ [][(/\ last'.op = "onclose" /\ last'.sockPre = OPEN
           /\ ~isIntentionallyClosed /\ reconnectAttempts < maxReconnectAttempts)
          => /\ timerLeft' = Append(timerLeft, reconnectDelay)
             /\ Attempts(socks') = Attempts(socks)]_vars
    /\ [][last'.op = "elapse"
          => /\ Len(timerLeft') = Len(timerLeft)
             /\ \A k \in 1..Len(timerLeft) :
                    timerLeft'[k] >= timerLeft[k] - TickMs]_vars
    /\ [][last'.op \in {"connect", "onopen"} => timerLeft' = timerLeft]_vars
    /\ [][last'.op = "timer"
          => /\ timerLeft[1] = 0
             /\ timerLeft' = Tail(timerLeft)
             /\ getConnectionState = "DISCONNECTED"
                    => /\ last'.created
                       /\ Cardinality(Attempts(socks')) = Cardinality(Attempts(socks)) + 1]_vars

\* the reconnection after the only close since the last open has just made
\* its attempt, and nothing else is alive
C12_Witness ==
    /\ last.op = "timer" /\ last.created /\ last.pre = "DISCONNECTED"
    /\ pingInterval = "cleared" /\ closesSinceOpen = 1 /\ reconnectAttempts = 1
    /\ reconnectTimers = 0
    /\ \A i \in SockIds : i # ws => socks[i] = NONE

\* C13: the close event of a transport that disconnect() closed (it was
\* CLOSING) never increments the counter and never schedules a
\* reconnection, whatever happened since that disconnect().
C13_VoluntaryCloseNeverReconnects ==
    (last.op = "onclose" /\ last.sockPre = CLOSING)
        => (~last.sched /\ reconnectAttempts = last.attempts)

\* C14: right after disconnect() the transport reference is null,
\* getConnectionState() is DISCONNECTED and no heartbeat interval runs.
C14_DisconnectStopsAll ==
    last.op = "disconnect"
        => /\ ws = 0
           /\ getConnectionState = "DISCONNECTED"
           /\ pingInterval # "active"
           /\ leakedIntervals = 0

\* C15 (as stated): after disconnect() then connect(), an involuntary close
\* of the transport that connect() created always schedules a reconnection
\* (here: the close that is delivered right after that connect()).
C15_RedialAlwaysReconnects ==
    (last.op = "onclose" /\ last.redialed /\ ~last.flag) => last.sched

\* C15: connect() after disconnect() clears the flag and creates a
\* transport; an involuntary close, of that transport as of any other,
\* schedules a reconnection exactly when the counter is below 5 at that
\* close, and then counts one attempt.
C15_RedialReconnectsWithinBudget ==
    /\ (last.op = "connect" /\ last.flag)
          => /\ last.created /\ ~isIntentionallyClosed
             /\ getConnectionState = "CONNECTING" /\ ws = last.sock
    /\ (last.op = "onclose" /\ ~last.flag)
          => /\ last.sched <=> last.attempts < maxReconnectAttempts
             /\ last.sched => reconnectAttempts = last.attempts + 1

C15_Witness ==
    /\ last.op = "onclose" /\ last.redialed /\ ~last.flag /\ last.sched

\* the last dispatch called the unsubscribe handle of one callback twice
UnsubscribedTwice ==
    \E j, k \in 1..Len(last.calls) :
        /\ j < k
        /\ last.calls[j].kind = "unsub" /\ last.calls[k].kind = "unsub"
        /\ last.calls[j].arg = last.calls[k].arg

\* C16: calling an unsubscribe handle removes its callback and nothing
\* else, and calling it again changes nothing: after the call the registry
\* is the one before without that callback, also when the handle is called
\* from callbacks during a dispatch, and no call raises.
C16_UnsubscribeIdempotent ==
    /\ last.op = "unsubscribe"
          => listeners = SelectSeq(last.start, LAMBDA e : e # last.sock)
    /\ (IsDispatch /\ \A k \in 1..Len(last.calls) : last.calls[k].kind \in {"none", "unsub"})
          => /\ listeners = SelectSeq(last.start, LAMBDA e : e \notin UnsubscribedDuring)
             /\ ~last.thrown

\* the handle of a callback that is no longer registered is called while
\* another callback is registered
C16_Witness ==
    /\ last.op = "unsubscribe"
    /\ last.sock \notin Range(last.start)
    /\ last.start # <<>>
    /\ listeners = last.start

\* a dispatch in which two callbacks called the same handle
C16_WitnessInDispatch == IsDispatch /\ UnsubscribedTwice

\* C17: getConnectionState() returns DISCONNECTED when there is no
\* transport or it is CLOSED, CONNECTING, CONNECTED (OPEN) or CLOSING from
\* the transport's readyState, and UNKNOWN otherwise; the call changes
\* nothing of the manager.
C17_StateIsReadOnlyView ==
    /\ [](last.op = "getConnectionState"
            => /\ (ws = 0 \/ (ws # 0 /\ socks[ws] = CLOSED)) <=> last.pre = "DISCONNECTED"
               /\ (ws # 0 /\ socks[ws] = CONNECTING) <=> last.pre = "CONNECTING"
               /\ (ws # 0 /\ socks[ws] = OPEN) <=> last.pre = "CONNECTED"
               /\ (ws # 0 /\ socks[ws] = CLOSING) <=> last.pre = "CLOSING"
               /\ (ws # 0 /\ socks[ws] \notin {CONNECTING, OPEN, CLOSING, CLOSED})
                      <=> last.pre = "UNKNOWN")
    /\ [][last'.op = "getConnectionState"
             => UNCHANGED <<connVars, listeners>>]_vars

\* the state is read after the current transport failed, with its
\* reconnection pending
C17_Witness ==
    /\ last.op = "getConnectionState" /\ last.pre = "DISCONNECTED"
    /\ ws # 0 /\ socks[ws] = CLOSED
    /\ reconnectTimers > 0

\* C18: subscribe and unsubscribe change nothing of the connection (the
\* transports, the counter, the flag, the timers); connect(), disconnect(),
\* the transport events and the reconnections leave the registry as it is,
\* so every frame dispatched, on whichever connection, goes to the
\* callbacks registered at that moment.
C18_RegistryAndConnectionApart ==
    /\ [][last'.op \in {"subscribe", "unsubscribe"} => UNCHANGED connVars]_vars
    /\ [][last'.op \in {"connect", "timer", "disconnect", "onopen", "onclose", "elapse"}
              => listeners' = listeners]_vars
    /\ []((last.op = "onmessage" /\ last.dispatched)
              => (Invoked = last.start /\ listeners = last.start))

\* a reconnection has created a transport after a failure while the view's
\* callback, subscribed earlier, is still registered
C18_Witness ==
    /\ last.op = "timer" /\ last.created /\ ~last.flag
    /\ last.pre = "DISCONNECTED"
    /\ listeners = <<LiveEventsListener>>

\* C19: the reconnect counter is always between 0 and 5; an involuntary
\* close that finds it below 5 adds exactly one to it, and any other close
\* leaves it as it was.
C19_CounterBounds ==
    /\ reconnectAttempts \in 0..maxReconnectAttempts
    /\ last.op = "onclose"
          => reconnectAttempts =
                 IF ~last.flag /\ last.attempts < maxReconnectAttempts
                 THEN last.attempts + 1 ELSE last.attempts

\* an involuntary close has taken the counter from 4 to 5
C19_Witness ==
    /\ last.op = "onclose" /\ ~last.flag /\ last.attempts = 4
    /\ reconnectAttempts = maxReconnectAttempts

\* C20: an open sets the reconnect counter to 0 whatever it was, so the
\* counter never exceeds the number of involuntary closes since the last
\* open, and each of the first 5 of them schedules a reconnection.
C20_OpenRestoresBudget ==
    /\ last.op = "onopen" => (reconnectAttempts = 0 /\ closesSinceOpen = 0)
    /\ reconnectAttempts <= closesSinceOpen
    /\ (last.op = "onclose" /\ ~last.flag /\ closesSinceOpen <= maxReconnectAttempts)
          => (last.sched /\ reconnectAttempts = closesSinceOpen)

\* a transport has opened when the budget was used up
C20_Witness ==
    /\ last.op = "onopen" /\ last.attempts = maxReconnectAttempts
    /\ reconnectAttempts = 0

\* after an open that found the budget used up, the 5th failure in a row
\* still schedules a reconnection
C20_WitnessFullBudget ==
    /\ last.op = "onclose" /\ last.sched
    /\ closesSinceOpen = maxReconnectAttempts
    /\ pingInterval = "cleared"

\* C21: a heartbeat tick sends 'ping' exactly when the manager's current
\* transport is OPEN: never while getConnectionState() is DISCONNECTED,
\* CONNECTING or CLOSING, and never after disconnect() (no current
\* transport).
C21_PingIffOpen ==
    last.op = "tick"
        => /\ last.sent <=> getConnectionState = "CONNECTED"
           /\ last.sent => (ws # 0 /\ socks[ws] = OPEN /\ last.sock = ws)
           /\ ws = 0 => ~last.sent

\* an interval ticks while the current transport is still CONNECTING
C21_Witness ==
    /\ last.op = "tick" /\ ~last.sent
    /\ getConnectionState = "CONNECTING"

\* an interval ticks after disconnect()
C21_WitnessAfterDisconnect ==
    /\ last.op = "tick" /\ ~last.sent /\ ws = 0 /\ isIntentionallyClosed

\* heartbeat intervals that are running, referenced or not
ActiveIntervals == (IF pingInterval = "active" THEN 1 ELSE 0) + leakedIntervals

\* C22: after an involuntary close event and after disconnect() no
\* heartbeat interval started by the manager is running.
C22_NoHeartbeatAfterClose ==
    (\/ last.op = "onclose" /\ ~last.flag
     \/ last.op = "disconnect")
        => ActiveIntervals = 0

\* C24: at most one heartbeat interval is running at any time, and none
\* runs without this.pingInterval naming it.
C24_OneHeartbeatInterval ==
    ActiveIntervals <= 1 /\ leakedIntervals = 0

\* nothing is pending: no reconnection timeout, no heartbeat interval, and
\* getConnectionState() is DISCONNECTED
Quiet ==
    /\ reconnectTimers = 0
    /\ ActiveIntervals = 0
    /\ getConnectionState = "DISCONNECTED"

\* C23: when every attempt fails and connect() and disconnect() are not
\* called again, a transport is created after at most 5 failures (6
\* attempts in all), and from the first connect() on the manager reaches,
\* after the 6th failure, a state it never leaves in which nothing is
\* pending.
C23_GivesUpForGood ==
    /\ [](last.created => closesSinceOpen <= maxReconnectAttempts)
    /\ []((ws # 0) => <>[](Quiet /\ closesSinceOpen = maxReconnectAttempts + 1))

\* the manager has given up, is polled, and the view is still subscribed
C23_Witness ==
    /\ Quiet /\ ws # 0
    /\ closesSinceOpen = maxReconnectAttempts + 1
    /\ reconnectAttempts = maxReconnectAttempts
    /\ last.op = "getConnectionState"
    /\ listeners = <<LiveEventsListener>>

\* C25: at most one reconnection timeout is pending at any time.
C25_OneReconnectTimeout == reconnectTimers <= 1

\* C26: the close event of a transport that is not the manager's current
\* one (replaced by a later connect(), or dropped by disconnect()) leaves
\* the heartbeat interval as it was, does not change the reconnect counter
\* and schedules no reconnection.
C26_StaleCloseIsIgnored ==
    (last.op = "onclose" /\ last.sock # last.wsPre)
        => /\ pingInterval = last.ping
           /\ reconnectAttempts = last.attempts
           /\ ~last.sched

\* C27: connect() leaves the reconnect counter as it is; when the counter
\* is 5, the close of the transport an explicit connect() has just created
\* (after a disconnect() or not) schedules nothing and leaves the counter
\* at 5.
C27_ConnectKeepsCounter ==
    /\ [][last'.op = "connect" => reconnectAttempts' = reconnectAttempts]_vars
    /\ [][(/\ last.op = "connect" /\ last.created
           /\ reconnectAttempts = maxReconnectAttempts
           /\ last'.op = "onclose" /\ last'.sock = ws)
          => /\ ~last'.sched
             /\ reconnectTimers' = reconnectTimers
             /\ reconnectAttempts' = maxReconnectAttempts]_vars

\* with the budget used up, disconnect() then connect(): the new attempt
\* has failed and nothing is pending
C27_Witness ==
    /\ last.op = "onclose" /\ last.redialed /\ ~last.flag
    /\ last.attempts = maxReconnectAttempts /\ last.sockPre = CONNECTING
    /\ ~last.sched /\ reconnectTimers = 0
    /\ getConnectionState = "DISCONNECTED"

\* C28: the registry never holds a callback twice; subscribing a callback
\* that is registered changes nothing, a dispatch then invokes it once, and
\* one call of an unsubscribe handle removes the callback whatever the
\* number of subscribe calls made for it.
C28_RegistryIsSet ==
    /\ \A j, k \in 1..Len(listeners) : listeners[j] = listeners[k] => j = k
    /\ (last.op = "subscribe" /\ last.sock \in Range(last.start))
          => listeners = last.start
    /\ last.op = "subscribe" => last.sock \in Range(listeners)
    /\ last.op = "unsubscribe" => last.sock \notin Range(listeners)
    /\ (IsDispatch /\ NoRegistryCall)
          => \A l \in Listeners : TimesInvoked(l) <= 1

\* a callback has been subscribed a second time
C28_Witness ==
    /\ last.op = "subscribe" /\ last.sock \in Range(last.start)
    /\ Len(listeners) = NumListeners

\* C29: the buffer of the live-events view never holds more than 50
\* events; a received event becomes the first entry, the entries kept
\* follow it in their previous order (so the buffer holds the newest
\* events, newest first), and an entry is dropped only when the buffer was
\* full, and then it is the oldest.
C29_BufferKeepsNewest ==
    /\ [](Len(liveBuffer) <= BufferSize)
    /\ [](\A k \in 1..Len(liveBuffer) : liveBuffer[k] = liveSeq - k + 1)
    /\ [][last'.op = "liveEvent"
            => /\ liveBuffer'[1] = last'.data[2]
               /\ Len(liveBuffer') = Min(Len(liveBuffer) + 1, BufferSize)
               /\ \A k \in 2..Len(liveBuffer') : liveBuffer'[k] = liveBuffer[k - 1]]_vars

\* the buffer was full and two more events came: the two oldest are gone
C29_Witness ==
    /\ last.op = "liveEvent"
    /\ liveSeq = BufferSize + 2
    /\ Len(liveBuffer) = BufferSize
    /\ liveBuffer[1] = BufferSize + 2
    /\ liveBuffer[BufferSize] = 3

\* C30: once no list request of the history view is outstanding (and none
\* has failed since the last call of fetchEvents), the events shown are the
\* answer to the request made for the current filters, and the loading
\* flag is false.
C30_LatestFiltersShown ==
    (history.mounted /\ history.pending = <<>> /\ ~history.error)
        => /\ history.events = ResultOf(history.filters)
           /\ ~history.loading
====
